---- MODULE Spec2Model ----
(***************************************************************************)
(* Model of package wire (wire.go, visitor.go): the reflective walk        *)
(* runVisitorInternal and its three visitors (Sizeof, Encode, Decode).     *)
(*                                                                         *)
(* A Go type is a descriptor record, a Go value is a tree of sequences:    *)
(*   - an integer, float or complex value is the sequence of the bytes of  *)
(*     its bit pattern, least significant byte first (so SetInt's          *)
(*     truncation and PutUintN's byte order are computed, not assumed);    *)
(*   - a string is its sequence of bytes;                                  *)
(*   - an array, slice or struct is the sequence of its elements/fields.   *)
(* A reflect.Value pointing into the caller's value is a path from the     *)
(* root value.                                                             *)
(***************************************************************************)
EXTENDS Integers, Sequences, FiniteSets, TLC

\* ------------------------------------------------------------------ bounds
MaxStrLen == 2      \* longest string among the inputs
MaxSliceLen == 2    \* longest slice among the inputs
MaxFail == 2        \* the sink's failing Write call is one of the first MaxFail
MaxCut == 2         \* the source ends up to MaxCut bytes before the encoding does

\* ------------------------------------------------------- type descriptors
Prim(k) == [kind |-> k, n |-> 0, sub |-> <<>>]
Field(nm, tg, T) == [name |-> nm, tag |-> tg, typ |-> T]
StructOf(fs) == [kind |-> "struct", n |-> 0, sub |-> fs]
ArrayOf(T, len) == [kind |-> "array", n |-> len, sub |-> <<Field("", <<>>, T)>>]
SliceOf(T) == [kind |-> "slice", n |-> 0, sub |-> <<Field("", <<>>, T)>>]
PtrTo(T) == [kind |-> "ptr", n |-> 0, sub |-> <<Field("", <<>>, T)>>]
Elem(T) == T.sub[1].typ

\* One match of tagRegexp: x[0] is d (for sizeof=<name>: x[1] = "sizeof", x[2] = name).
Big == [d |-> "big", name |-> ""]
Little == [d |-> "little", name |-> ""]
Nullterm == [d |-> "nullterm", name |-> ""]
SizeofTag(nm) == [d |-> "sizeof", name |-> nm]

\* Serialized width of the fixed-width kinds; 0 for every other kind.
Width(k) ==
  CASE k \in {"int8", "uint8"} -> 1
    [] k \in {"int16", "uint16"} -> 2
    [] k \in {"int32", "uint32", "float32"} -> 4
    [] k \in {"int64", "uint64", "float64", "complex64"} -> 8
    [] k = "complex128" -> 16
    [] OTHER -> 0

\* In-memory width of a scalar kind (bool: 1 byte; int, uint, uintptr: 8 bytes).
MemWidth(k) ==
  CASE k = "bool" -> 1
    [] k \in {"int", "uint", "uintptr"} -> 8
    [] OTHER -> Width(k)

ScalarKinds ==
  {"bool", "int", "int8", "int16", "int32", "int64",
   "uint", "uint8", "uint16", "uint32", "uint64", "uintptr",
   "float32", "float64", "complex64", "complex128"}

\* ------------------------------------------------------------------ values
Min(a, b) == IF a < b THEN a ELSE b
Max(a, b) == IF a > b THEN a ELSE b
Zeros(k) == [i \in 1..k |-> 0]
Reverse(s) == [i \in 1..Len(s) |-> s[Len(s) + 1 - i]]

\* The w low bytes of the non-negative integer x, least significant first.
RECURSIVE Digits(_, _)
Digits(x, w) == IF w = 0 THEN <<>> ELSE <<x % 256>> \o Digits(x \div 256, w - 1)

\* The unsigned integer a byte pattern holds.
RECURSIVE ToNat(_)
ToNat(ds) == IF ds = <<>> THEN 0 ELSE Head(ds) + 256 * ToNat(Tail(ds))

\* A pattern whose bytes all differ, so that the two byte orders differ.
Pattern(w) == [i \in 1..w |-> i]

RECURSIVE ZeroOf(_)
ZeroOf(T) ==
  CASE T.kind \in ScalarKinds -> Zeros(MemWidth(T.kind))
    [] T.kind = "array" -> [i \in 1..T.n |-> ZeroOf(Elem(T))]
    [] T.kind = "struct" -> [i \in 1..Len(T.sub) |-> ZeroOf(T.sub[i].typ)]
    [] T.kind = "ptr" -> ZeroOf(Elem(T))
    [] OTHER -> <<>>

SeqsUpTo(S, k) == UNION {[1..j -> S] : j \in 0..k}

\* Every sequence whose i-th element is drawn from sets[i].
RECURSIVE Product(_)
Product(sets) ==
  IF sets = <<>> THEN {<<>>}
  ELSE {<<x>> \o rest : x \in Head(sets), rest \in Product(Tail(sets))}

MaxLen == Max(MaxStrLen, MaxSliceLen)

\* The input values of type T. Below an array or a slice (inner) the leaves take
\* two values each.
RECURSIVE Values(_, _)
Values(T, inner) ==
  CASE T.kind = "bool" -> {<<0>>, <<1>>}
    [] T.kind \in ScalarKinds \ {"bool"} ->
         IF inner THEN {Digits(1, MemWidth(T.kind)), Pattern(MemWidth(T.kind))}
         ELSE {Digits(k, MemWidth(T.kind)) : k \in 0..MaxLen} \cup {Pattern(MemWidth(T.kind))}
    [] T.kind = "string" ->
         IF inner THEN {<<>>, <<97>>} ELSE SeqsUpTo({0, 97}, MaxStrLen)
    [] T.kind = "array" -> [1..T.n -> Values(Elem(T), TRUE)]
    [] T.kind = "slice" -> SeqsUpTo(Values(Elem(T), TRUE), MaxSliceLen)
    [] T.kind = "struct" -> Product([i \in 1..Len(T.sub) |-> Values(T.sub[i].typ, inner)])
    [] T.kind = "ptr" -> Values(Elem(T), inner)
    [] OTHER -> {<<>>}

\* reflect.Value as a path into the root value.
RECURSIVE GetAt(_, _)
GetAt(v, path) == IF path = <<>> THEN v ELSE GetAt(v[Head(path)], Tail(path))

RECURSIVE SetAt(_, _, _)
SetAt(v, path, x) ==
  IF path = <<>> THEN x
  ELSE [v EXCEPT ![Head(path)] = SetAt(v[Head(path)], Tail(path), x)]

\* The type of the value at a path (pointers are transparent, as in the walk).
RECURSIVE TypeAt(_, _)
TypeAt(T, path) ==
  IF T.kind = "ptr" THEN TypeAt(Elem(T), path)
  ELSE IF path = <<>> THEN T
  ELSE IF T.kind = "struct" THEN TypeAt(T.sub[Head(path)].typ, Tail(path))
  ELSE TypeAt(Elem(T), Tail(path))

\* ------------------------------------------------------------ walk state
\* The walk threads one record: val is the caller's value (reflect.Values point
\* into it), out/wcalls/wfail/werr the io.Writer, inp/short the io.Reader, size the
\* sizeofVisitor's counter, err the error being returned ("" is nil). trace, data
\* and origin record what the walk did, for the properties.
NewWalk(val, wfail, inp) ==
  [val |-> val, out |-> <<>>, wcalls |-> 0, wfail |-> wfail, werr |-> FALSE,
   inp |-> inp, short |-> FALSE, size |-> 0, err |-> "",
   trace |-> <<>>, data |-> <<>>, origin |-> FALSE]

NilRef == [valid |-> FALSE, path |-> <<>>, kind |-> "invalid"]
NoField == Field("", <<>>, Prim("invalid"))

\* type node; NoNode is the nil *node.
NewNode(T, path) ==
  [valid |-> TRUE, path |-> path, typ |-> T, sizeof |-> NilRef, sizeFrom |-> NilRef,
   sizeFroms |-> <<>>, endianness |-> "", nullTerminated |-> FALSE]
NoNode == [NewNode(Prim("invalid"), <<>>) EXCEPT !.valid = FALSE]

RefTo(n) == [valid |-> TRUE, path |-> n.path, kind |-> n.typ.kind]

\* p.sizeFroms[name]: nil when the map is nil or holds no such key.
LookupSizeFrom(sizeFroms, name) ==
  IF name \in DOMAIN sizeFroms THEN sizeFroms[name] ELSE NilRef

\* reflect.Value.FieldByName: the index of the field, 0 when there is none.
FieldByName(T, name) ==
  IF T.kind = "struct" /\ \E i \in 1..Len(T.sub) : T.sub[i].name = name
  THEN CHOOSE i \in 1..Len(T.sub) : T.sub[i].name = name
  ELSE 0

Unsupported(k) == "wire: unsupported type: " \o k
MissingLengthSource == "wire: slice with no size source"
EOF == "EOF"
PanicNilDeref == "panic: nil pointer dereference"
PanicUint(k) == "panic: reflect: call of reflect.Value.Uint on " \o k \o " Value"
PanicLen(k) == "panic: reflect: call of reflect.Value.Len on " \o k \o " Value"
IsPanic(e) == e \in {PanicNilDeref} \cup {PanicUint(k) : k \in ScalarKinds \cup {"string", "array", "slice", "struct"}}
                 \cup {PanicLen(k) : k \in ScalarKinds \cup {"struct"}}

Event(ev, n, order, st, err) ==
  [ev |-> ev, path |-> n.path, kind |-> n.typ.kind, order |-> order,
   nullterm |-> n.nullTerminated, sized |-> n.sizeFrom.valid,
   data |-> st.data, outLen |-> Len(st.out), inLen |-> Len(st.inp),
   err |-> err, origin |-> (err # "" /\ st.origin)]
Log(st, e) == [st EXCEPT !.trace = Append(@, e)]

\* A visitor's return: err, whether this visit raised it, and the leaf's bytes.
Return(st, err, origin, data) == [st EXCEPT !.err = err, !.origin = origin, !.data = data]

\* ------------------------------------------------------------ sink, source
\* One Write call on the io.Writer. The sink's wfail-th call fails: it takes no
\* byte and returns an error (which the callers below drop).
Write(st, bytes) ==
  IF st.wcalls + 1 = st.wfail
  THEN [st EXCEPT !.wcalls = @ + 1, !.werr = TRUE]
  ELSE [st EXCEPT !.wcalls = @ + 1, !.out = @ \o bytes]

\* One Read call of k bytes on the io.Reader (a bytes.Buffer, as in the tests):
\* buf is the k-byte buffer afterwards. A read of fewer bytes than asked for
\* returns no error; only a read at the end of the source returns EOF.
Read(st, k) ==
  IF k = 0 THEN [st |-> st, buf |-> <<>>, err |-> ""]
  ELSE IF st.inp = <<>> THEN [st |-> st, buf |-> Zeros(k), err |-> EOF]
  ELSE LET got == Min(k, Len(st.inp)) IN
       [st |-> [st EXCEPT !.inp = SubSeq(@, got + 1, Len(@)),
                          !.short = @ \/ got < k],
        buf |-> SubSeq(st.inp, 1, got) \o Zeros(k - got), err |-> ""]

\* order.PutUintN on a bit pattern, and order.UintN back to a bit pattern.
PutUint(order, bits) == IF order = "little" THEN bits ELSE Reverse(bits)
Uint(order, buf) == IF order = "little" THEN buf ELSE Reverse(buf)

UintKinds == {"uint", "uint8", "uint16", "uint32", "uint64", "uintptr"}
LenKinds == {"array", "slice", "string", "map"}

\* ---------------------------------------------------------------- the walk
RECURSIVE runVisitorInternal(_, _, _, _, _, _)
RECURSIVE structLoop(_, _, _, _)
RECURSIVE elemLoop(_, _, _, _, _)
RECURSIVE sizeofElems(_, _, _, _)
RECURSIVE visit(_, _, _)

\* The loop over the tag's matches: returns the node and its parent, whose
\* sizeFroms the sizeof directive writes.
RECURSIVE applyTags(_, _, _, _)
applyTags(n, p, tags, i) ==
  IF i > Len(tags) THEN [n |-> n, p |-> p]
  ELSE LET x == tags[i] IN
    CASE x.d = "big" -> applyTags([n EXCEPT !.endianness = "big"], p, tags, i + 1)
      [] x.d = "little" -> applyTags([n EXCEPT !.endianness = "little"], p, tags, i + 1)
      [] x.d = "nullterm" -> applyTags([n EXCEPT !.nullTerminated = TRUE], p, tags, i + 1)
      [] OTHER ->
           LET fi == FieldByName(p.typ, x.name)
               sz == IF fi = 0 THEN NilRef
                     ELSE [valid |-> TRUE, path |-> p.path \o <<fi>>,
                           kind |-> p.typ.sub[fi].typ.kind]
           IN applyTags([n EXCEPT !.sizeof = sz],
                        [p EXCEPT !.sizeFroms = (x.name :> RefTo(n)) @@ p.sizeFroms],
                        tags, i + 1)

\* The kinds runVisitorInternal hands to the visitor.
VisitKinds == ScalarKinds \cup {"array", "slice", "string"}

\* Mutant of sizeFromOf: the length field is looked up among all the parent's
\* fields, whether or not the walk has reached it.
sizeFromAnywhere(p, f) ==
  IF p.valid /\ \E j \in 1..Len(p.typ.sub) :
                  \E i \in 1..Len(p.typ.sub[j].tag) :
                    p.typ.sub[j].tag[i] = SizeofTag(f.name)
  THEN LET j == CHOOSE j \in 1..Len(p.typ.sub) :
                  \E i \in 1..Len(p.typ.sub[j].tag) : p.typ.sub[j].tag[i] = SizeofTag(f.name)
       IN [valid |-> TRUE, path |-> p.path \o <<j>>, kind |-> p.typ.sub[j].typ.kind]
  ELSE NilRef

\* The sizeFrom a new node takes from its parent.
sizeFromOf(p, f) == IF p.valid THEN LookupSizeFrom(p.sizeFroms, f.name) ELSE NilRef

\* f is nil exactly when p is (runVisitor, and the element calls of the visitors).
runVisitorInternal(v, T0, path, p, f, st) ==
  LET T == IF T0.kind = "ptr" THEN Elem(T0) ELSE T0
      n0 == [NewNode(T, path) EXCEPT !.sizeFrom = sizeFromOf(p, f)]
      np == IF p.valid THEN applyTags(n0, p, f.tag, 1) ELSE [n |-> n0, p |-> p]
      n == np.n
  IN CASE T.kind \in VisitKinds -> [st |-> visit(v, n, st), p |-> np.p]
       [] T.kind = "struct" -> [st |-> structLoop(v, n, 1, st), p |-> np.p]
       [] OTHER ->
            LET s1 == Return(st, Unsupported(T.kind), TRUE, <<>>)
            IN [st |-> Log(s1, Event("exit", n, "", s1, s1.err)), p |-> np.p]

runVisitor(v, T, path, st) == runVisitorInternal(v, T, path, NoNode, NoField, st).st

\* Mutant of structLoop: the loop goes on after a field's error and returns
\* the last field's.
RECURSIVE structLoopContinue(_, _, _, _)
structLoopContinue(v, n, i, st) ==
  IF i > Len(n.typ.sub) THEN st
  ELSE LET fld == n.typ.sub[i]
           r == runVisitorInternal(v, fld.typ, n.path \o <<i>>, n, fld, st)
       IN structLoopContinue(v, r.p, i + 1, r.st)

\* The loop over a struct's fields; n is the struct's node, the fields' parent.
structLoop(v, n, i, st) ==
  IF i > Len(n.typ.sub) THEN Return(st, "", FALSE, <<>>)
  ELSE LET fld == n.typ.sub[i]
           r == runVisitorInternal(v, fld.typ, n.path \o <<i>>, n, fld, st)
       IN IF r.st.err # "" THEN r.st ELSE structLoop(v, r.p, i + 1, r.st)

\* for i := 0; i < cnt; i++ { err = encode/decode(elem i, order); if err != nil { return err } }
elemLoop(v, n, i, cnt, st) ==
  IF i > cnt THEN Return(st, "", FALSE, <<>>)
  ELSE LET r == runVisitor(v, Elem(n.typ), n.path \o <<i>>, st)
       IN IF r.err # "" THEN Return(r, r.err, FALSE, <<>>)
          ELSE elemLoop(v, n, i + 1, cnt, r)

\* ------------------------------------------------------------------ Sizeof
\* sizeof(elem): a fresh sizeofVisitor on one element; size is the element's size.
sizeofOne(n, i, st) ==
  runVisitor([mode |-> "sizeof", order |-> ""], Elem(n.typ), n.path \o <<i>>,
             [st EXCEPT !.size = 0])

\* The loop over the elements of an array or slice of structs.
sizeofElems(n, i, cnt, st) ==
  IF i > cnt THEN Return(st, "", FALSE, <<>>)
  ELSE LET r == sizeofOne(n, i, st)
       IN IF r.err # "" THEN Return(r, r.err, FALSE, <<>>)
          ELSE sizeofElems(n, i + 1, cnt, [r EXCEPT !.size = st.size + r.size])

sizeofVisit(n, st) ==
  LET k == n.typ.kind
      val == GetAt(st.val, n.path)
  IN CASE Width(k) > 0 -> Return([st EXCEPT !.size = @ + Width(k)], "", FALSE, <<>>)
       [] k \in {"array", "slice"} ->
            IF Len(val) = 0 THEN Return(st, "", FALSE, <<>>)
            ELSE IF Elem(n.typ).kind = "struct" THEN sizeofElems(n, 1, Len(val), st)
            ELSE LET r == sizeofOne(n, 1, st)
                 IN IF r.err # "" THEN Return(r, r.err, FALSE, <<>>)
                    ELSE Return([r EXCEPT !.size = st.size + Len(val) * r.size], "", FALSE, <<>>)
       [] k = "string" ->
            Return([st EXCEPT !.size = @ + Len(val) + (IF n.nullTerminated THEN 1 ELSE 0)],
                   "", FALSE, <<>>)
       [] OTHER -> Return(st, Unsupported(k), TRUE, <<>>)

\* ------------------------------------------------------------------ Encode
\* The kinds whose sizeof field Encode overwrites with the sibling's length.
PatchedKinds == {"int8", "int32", "int64", "uint8", "uint32", "uint64"}

encodeVisit(v, n, st0) ==
  LET order == IF n.endianness # "" THEN n.endianness ELSE v.order
      k == n.typ.kind
      patch == n.sizeof.valid /\ k \in PatchedKinds
      st == IF patch /\ n.sizeof.kind \in LenKinds
            THEN [st0 EXCEPT !.val = SetAt(@, n.path,
                     Digits(Len(GetAt(st0.val, n.sizeof.path)), Width(k)))]
            ELSE st0
      bits == GetAt(st.val, n.path)
  IN IF patch /\ n.sizeof.kind \notin LenKinds
     THEN Return(st, PanicLen(n.sizeof.kind), TRUE, <<>>)
     ELSE CASE Width(k) = 1 -> Return(Write(st, bits), "", FALSE, bits)
            [] Width(k) \in {2, 4} \/ k \in {"int64", "uint64", "float64"} ->
                 Return(Write(st, PutUint(order, bits)), "", FALSE, PutUint(order, bits))
            [] k \in {"array", "slice"} ->
                 elemLoop([mode |-> "encode", order |-> order], n, 1, Len(bits), st)
            [] k = "string" ->
                 LET s1 == Write(st, bits)
                 IN IF n.nullTerminated
                    THEN Return(Write(s1, <<0>>), "", FALSE, bits \o <<0>>)
                    ELSE Return(s1, "", FALSE, bits)
            [] OTHER -> Return(st, Unsupported(k), TRUE, <<>>)

\* ------------------------------------------------------------------ Decode
RECURSIVE readNullTerminatedString(_, _)
readNullTerminatedString(st, buf) ==
  LET r == Read(st, 1)
  IN IF r.err # "" THEN [st |-> r.st, str |-> <<>>, err |-> r.err]
     ELSE IF r.buf[1] = 0 THEN [st |-> r.st, str |-> buf, err |-> ""]
     ELSE readNullTerminatedString(r.st, Append(buf, r.buf[1]))

Set(st, n, x) == [st EXCEPT !.val = SetAt(@, n.path, x)]

decodeVisit(v, n, st) ==
  LET order == IF n.endianness # "" THEN n.endianness ELSE v.order
      k == n.typ.kind
      dv == [mode |-> "decode", order |-> order]
  IN CASE k \in {"int8", "uint8", "int16", "uint16", "int32", "uint32", "int64", "uint64"} ->
            LET r == Read(st, Width(k))
            IN Return(Set(r.st, n, Uint(order, r.buf)), r.err, TRUE, r.buf)
       [] k = "array" -> elemLoop(dv, n, 1, Len(GetAt(st.val, n.path)), st)
       [] k = "slice" ->
            IF ~n.sizeFrom.valid THEN Return(st, MissingLengthSource, TRUE, <<>>)
            ELSE IF n.sizeFrom.kind \notin UintKinds
            THEN Return(st, PanicUint(n.sizeFrom.kind), TRUE, <<>>)
            ELSE LET len == ToNat(GetAt(st.val, n.sizeFrom.path))
                 IN elemLoop(dv, n, 1, len, Set(st, n, [i \in 1..len |-> ZeroOf(Elem(n.typ))]))
       [] k = "string" ->
            IF n.nullTerminated
            THEN LET r == readNullTerminatedString(st, <<>>)
                 IN Return(Set(r.st, n, r.str), r.err, TRUE, r.str)
            ELSE IF ~n.sizeFrom.valid THEN Return(st, PanicNilDeref, TRUE, <<>>)
            ELSE IF n.sizeFrom.kind \notin UintKinds
            THEN Return(st, PanicUint(n.sizeFrom.kind), TRUE, <<>>)
            ELSE LET r == Read(st, ToNat(GetAt(st.val, n.sizeFrom.path)))
                 IN Return(Set(r.st, n, r.buf), r.err, TRUE, r.buf)
       [] OTHER -> Return(st, Unsupported(k), TRUE, <<>>)

\* v.visit(n), with the walk's record of it: the node entered, and how it returned.
visit(v, n, st) ==
  LET order == IF v.mode = "sizeof" THEN ""
               ELSE IF n.endianness # "" THEN n.endianness ELSE v.order
      s1 == Log(st, Event("enter", n, order, Return(st, "", FALSE, <<>>), ""))
      r == CASE v.mode = "sizeof" -> sizeofVisit(n, s1)
             [] v.mode = "encode" -> encodeVisit(v, n, s1)
             [] OTHER -> decodeVisit(v, n, s1)
  IN Log(r, Event("exit", n, order, r, r.err))

\* The three entry points, on the value the caller's pointer points to.
sizeof(T, val) == runVisitor([mode |-> "sizeof", order |-> ""], T, <<>>, NewWalk(val, 0, <<>>))
encode(T, val, o, wfail) == runVisitor([mode |-> "encode", order |-> o], T, <<>>, NewWalk(val, wfail, <<>>))
decode(T, val, o, inp) == runVisitor([mode |-> "decode", order |-> o], T, <<>>, NewWalk(val, 0, inp))

\* ------------------------------------------------------------ input types
U8 == Prim("uint8")
U16 == Prim("uint16")
U32 == Prim("uint32")
Str == Prim("string")
innerStruct == StructOf(<<Field("U32", <<>>, U32)>>)
boolStruct == StructOf(<<Field("B", <<>>, Prim("bool"))>>)

\* The struct types the calls are made on (each through a pointer).
Types ==
  { PtrTo(StructOf(fs)) : fs \in {
    \* fixed-width integers, with and without a byte-order directive
    << Field("I8", <<>>, Prim("int8")), Field("U16", <<>>, U16),
       Field("I32", <<Little>>, Prim("int32")) >>,
    << Field("U64", <<Big>>, Prim("uint64")), Field("I64", <<>>, Prim("int64")) >>,
    << Field("F32", <<>>, Prim("float32")), Field("F64", <<Big>>, Prim("float64")) >>,
    \* kinds some visitor has no case for
    << Field("U8", <<>>, U8), Field("B", <<>>, Prim("bool")), Field("U16", <<>>, U16) >>,
    << Field("U8", <<>>, U8), Field("C", <<>>, Prim("complex64")) >>,
    << Field("U8", <<>>, U8), Field("M", <<>>, Prim("map")), Field("V", <<>>, U8) >>,
    << Field("U8", <<>>, U8), Field("A", <<>>, ArrayOf(boolStruct, 2)), Field("V", <<>>, U8) >>,
    \* arrays, nested structs and a byte-order directive above them
    << Field("AU16", <<Big>>, ArrayOf(U16, 2)), Field("SU16", <<Little>>, ArrayOf(U16, 1)) >>,
    << Field("AIS", <<Big>>, ArrayOf(innerStruct, 2)) >>,
    << Field("IS", <<Big>>, innerStruct), Field("U32", <<>>, U32) >>,
    << Field("IS", <<Little>>, innerStruct), Field("U16", <<Big>>, U16) >>,
    \* a length field before and after the slice or string it measures
    << Field("N", <<SizeofTag("S")>>, U32), Field("S", <<>>, SliceOf(U8)) >>,
    << Field("S", <<>>, SliceOf(U8)), Field("N", <<SizeofTag("S")>>, U32) >>,
    << Field("N", <<SizeofTag("Items")>>, U16), Field("Items", <<>>, SliceOf(U8)) >>,
    << Field("N", <<SizeofTag("S")>>, Prim("int32")), Field("S", <<>>, SliceOf(U8)) >>,
    << Field("TF", <<Little, SizeofTag("SIS")>>, U32), Field("SIS", <<>>, SliceOf(innerStruct)) >>,
    << Field("SS", <<SizeofTag("SQ")>>, U32), Field("SQ", <<>>, Str) >>,
    << Field("SQ", <<>>, Str), Field("SS", <<SizeofTag("SQ")>>, U8) >>,
    << Field("N", <<SizeofTag("L")>>, U8), Field("L", <<>>, SliceOf(Str)) >>,
    \* a slice and a string with no length field
    << Field("U8", <<>>, U8), Field("S", <<>>, SliceOf(U8)) >>,
    << Field("U8", <<>>, U8), Field("Q", <<>>, Str) >>,
    \* null-terminated strings, and the package documentation's example
    << Field("SZ", <<Nullterm>>, Str), Field("U8", <<>>, U8) >>,
    << Field("UsernameLen", <<SizeofTag("Username"), Big>>, U16),
       Field("Username", <<>>, Str), Field("Password", <<Nullterm>>, Str) >> } }

Orders == {"little", "big"}

\* ------------------------------------------------------------------- state
VARIABLES
  typ,      \* the type of the caller's value
  order,    \* the calls' default byte order
  orig,     \* the caller's value before any call
  val,      \* the caller's value (Encode writes its sizeof fields)
  pc,       \* "new", "sized", "encoded", "decoded": the calls made so far
  size,     \* Sizeof's result
  sizeErr,  \* Sizeof's error ("" is nil)
  wfail,    \* the sink's failing Write call (0: none fails)
  sink,     \* the bytes the sink holds
  werr,     \* whether a Write call on the sink failed
  wcalls,   \* the Write calls Encode made
  encErr,   \* Encode's error
  src,      \* the source: the sink's bytes before Decode, the bytes left unread after it
  dec,      \* the value Decode fills, a zero value of typ before
  short,    \* whether a Read call returned fewer bytes than asked for, and no error
  decErr,   \* Decode's error
  cut,      \* the bytes of the encoding the source did not hold
  trace     \* the nodes the last call visited

vars == <<typ, order, orig, val, pc, size, sizeErr, wfail, sink, werr, wcalls, encErr,
          src, dec, short, decErr, cut, trace>>

Init ==
  /\ typ \in Types
  /\ order \in Orders
  /\ orig \in Values(typ, FALSE)
  /\ val = orig
  /\ pc = "new"
  /\ size = 0 /\ sizeErr = ""
  /\ wfail = 0 /\ sink = <<>> /\ werr = FALSE /\ wcalls = 0 /\ encErr = ""
  /\ src = <<>> /\ dec = ZeroOf(typ) /\ short = FALSE /\ decErr = "" /\ cut = 0
  /\ trace = <<>>

\* size, err := Sizeof(&val)
Sizeof ==
  /\ pc = "new"
  /\ LET r == sizeof(typ, val) IN
       /\ size' = IF r.err # "" THEN -1 ELSE r.size
       /\ sizeErr' = r.err
       /\ trace' = r.trace
  /\ pc' = "sized"
  /\ UNCHANGED <<typ, order, orig, val, wfail, sink, werr, wcalls, encErr, src, dec, short, decErr, cut>>

\* err := EncodeWithOrder(sink, &val, order), on a sink whose f-th Write call fails
Encode ==
  /\ pc = "sized"
  /\ \E f \in 0..MaxFail :
       LET r == encode(typ, val, order, f) IN
         /\ wfail' = f
         /\ val' = r.val
         /\ sink' = r.out
         /\ werr' = r.werr
         /\ wcalls' = r.wcalls
         /\ encErr' = r.err
         /\ trace' = r.trace
         /\ src' = r.out
  /\ pc' = "encoded"
  /\ UNCHANGED <<typ, order, orig, size, sizeErr, dec, short, decErr, cut>>

\* err := DecodeWithOrder(src, &dec, order), on a source that holds what the sink
\* received, less its last c bytes
Decode ==
  /\ pc = "encoded"
  /\ ~werr
  /\ \E c \in 0..Min(MaxCut, Len(sink)) :
       LET r == decode(typ, dec, order, SubSeq(sink, 1, Len(sink) - c)) IN
         /\ dec' = r.val
         /\ src' = r.inp
         /\ short' = r.short
         /\ decErr' = r.err
         /\ cut' = c
         /\ trace' = r.trace
  /\ pc' = "decoded"
  /\ UNCHANGED <<typ, order, orig, val, size, sizeErr, wfail, sink, werr, wcalls, encErr>>

Next == Sizeof \/ Encode \/ Decode

Spec == Init /\ [][Next]_vars

\* ------------------------------------------------- vocabulary of the claims
Range(s) == {s[i] : i \in DOMAIN s}
Front(s) == SubSeq(s, 1, Len(s) - 1)
Last(s) == s[Len(s)]

RECURSIVE LexLess(_, _)
LexLess(a, b) ==
  IF a = <<>> THEN b # <<>>
  ELSE IF b = <<>> THEN FALSE
  ELSE Head(a) < Head(b) \/ (Head(a) = Head(b) /\ LexLess(Tail(a), Tail(b)))

\* The error the last call returned.
LastErr ==
  CASE pc = "sized" -> sizeErr
    [] pc = "encoded" -> encErr
    [] pc = "decoded" -> decErr
    [] OTHER -> ""

ParentOf(path) == TypeAt(typ, Front(path))
IsField(path) == path # <<>> /\ ParentOf(path).kind = "struct"
FieldOf(path) == ParentOf(path).sub[Last(path)]

\* The siblings a field's sizeof directives name, and the siblings that name it.
TargetsOf(path) ==
  IF IsField(path)
  THEN {Front(path) \o <<i>> : i \in {i \in 1..Len(ParentOf(path).sub) :
          SizeofTag(ParentOf(path).sub[i].name) \in Range(FieldOf(path).tag)}}
  ELSE {}
ProducersOf(path) ==
  IF IsField(path)
  THEN {Front(path) \o <<j>> : j \in {j \in 1..Len(ParentOf(path).sub) :
          SizeofTag(FieldOf(path).name) \in Range(ParentOf(path).sub[j].tag)}}
  ELSE {}

\* The byte order the directives give a leaf by lexical scoping: the deepest
\* big/little directive on the way down to it, else the call's default.
RECURSIVE TagOrder(_, _)
TagOrder(tags, cur) ==
  IF tags = <<>> THEN cur
  ELSE TagOrder(Tail(tags), IF Head(tags).d \in {"big", "little"} THEN Head(tags).d ELSE cur)

RECURSIVE ScopedOrder(_, _, _)
ScopedOrder(T, path, cur) ==
  IF T.kind = "ptr" THEN ScopedOrder(Elem(T), path, cur)
  ELSE IF path = <<>> THEN cur
  ELSE IF T.kind = "struct"
  THEN ScopedOrder(T.sub[Head(path)].typ, Tail(path), TagOrder(T.sub[Head(path)].tag, cur))
  ELSE ScopedOrder(Elem(T), Tail(path), cur)

FixedInts == {"int8", "int16", "int32", "int64", "uint8", "uint16", "uint32", "uint64"}
Floats == {"float32", "float64"}

\* Whether every sizeof field of v holds the length of the sibling it names.
RECURSIVE LengthsTrue(_, _)
LengthsTrue(T, v) ==
  CASE T.kind = "ptr" -> LengthsTrue(Elem(T), v)
    [] T.kind = "struct" ->
         \A j \in 1..Len(T.sub) :
           /\ \A t \in Range(T.sub[j].tag) :
                (t.d = "sizeof" /\ FieldByName(T, t.name) # 0)
                  => ToNat(v[j]) = Len(v[FieldByName(T, t.name)])
           /\ LengthsTrue(T.sub[j].typ, v[j])
    [] T.kind \in {"array", "slice"} -> \A i \in 1..Len(v) : LengthsTrue(Elem(T), v[i])
    [] OTHER -> TRUE

\* The types of the round-trip claim: fixed-width integers, floats, arrays,
\* structs, null-terminated strings, and slices and strings a sibling's sizeof names.
RECURSIVE RoundTripType(_)
RoundTripType(T) ==
  CASE T.kind = "ptr" -> RoundTripType(Elem(T))
    [] T.kind \in FixedInts \cup Floats -> TRUE
    [] T.kind = "array" -> RoundTripType(Elem(T))
    [] T.kind = "struct" ->
         \A i \in 1..Len(T.sub) :
           LET f == T.sub[i]
               linked == \E j \in 1..Len(T.sub) : SizeofTag(f.name) \in Range(T.sub[j].tag)
           IN CASE f.typ.kind = "string" -> Nullterm \in Range(f.tag) \/ linked
                [] f.typ.kind = "slice" -> linked /\ RoundTripType(Elem(f.typ))
                [] OTHER -> RoundTripType(f.typ)
    [] OTHER -> FALSE

\* The types of the size-agreement claim: any nesting of fixed-width integers
\* and floats, arrays, slices, strings and structs.
RECURSIVE SizedType(_)
SizedType(T) ==
  CASE T.kind \in FixedInts \cup Floats \cup {"string"} -> TRUE
    [] T.kind \in {"ptr", "array", "slice"} -> SizedType(Elem(T))
    [] T.kind = "struct" -> \A i \in 1..Len(T.sub) : SizedType(T.sub[i].typ)
    [] OTHER -> FALSE

\* The kinds the supported-kinds claim lists.
ClaimKinds == {"bool", "struct", "array", "slice", "string"} \cup FixedInts \cup Floats

\* ------------------------------------------------------------------ claims

\* C1: round trip. A value of a round-trip type whose sizeof fields hold the true
\* lengths, encoded and then decoded from all the encoded bytes with the same
\* default order into a zero value, decodes without error to the value itself.
C1_RoundTrip ==
  (pc = "decoded" /\ cut = 0 /\ wfail = 0 /\ RoundTripType(typ) /\ LengthsTrue(typ, orig))
    => (encErr = "" /\ decErr = "" /\ dec = orig)

\* C2: size agreement. For a value of a sized type, Sizeof succeeds and returns
\* the number of bytes Encode writes to a sink that takes every write.
C2_SizeAgreement ==
  (pc = "encoded" /\ wfail = 0 /\ SizedType(typ))
    => (sizeErr = "" /\ encErr = "" /\ size = Len(sink))

\* C3: length-link mutation. After Encode, every sizeof field of a fixed integer
\* width (1, 2, 4 or 8 bytes) holds the length of the sibling it names, and the
\* bytes written for it encode that length in the field's byte order.
C3_LengthLinkMutation ==
  (pc = "encoded" /\ encErr = "")
    => \A i \in DOMAIN trace :
         (trace[i].ev = "exit" /\ trace[i].kind \in FixedInts)
           => \A t \in TargetsOf(trace[i].path) :
                TypeAt(typ, t).kind \in {"array", "slice", "string"}
                  => /\ GetAt(val, trace[i].path)
                          = Digits(Len(GetAt(val, t)), Width(trace[i].kind))
                     /\ trace[i].data
                          = PutUint(trace[i].order,
                                    Digits(Len(GetAt(val, t)), Width(trace[i].kind)))

\* C4: byte-order scoping. Every multi-byte leaf Encode writes and Decode reads
\* is in the order of the deepest big/little directive on the fields above it
\* (or on it), and in the call's default order when there is none.
C4_ByteOrderScoping ==
  \A i \in DOMAIN trace :
    (trace[i].ev = "exit" /\ trace[i].err = "" /\ Width(trace[i].kind) > 1)
      => /\ pc = "encoded"
              => trace[i].data = PutUint(ScopedOrder(typ, trace[i].path, order),
                                         GetAt(val, trace[i].path))
         /\ pc = "decoded"
              => GetAt(dec, trace[i].path)
                   = Uint(ScopedOrder(typ, trace[i].path, order), trace[i].data)

\* C5: missing length source. When Decode reaches a slice, or a string without
\* nullterm, that has no length producer, it returns MissingLengthSource and
\* reads nothing from the source from then on.
C5_MissingLengthSource ==
  pc = "decoded"
    => \A i \in DOMAIN trace :
         (/\ trace[i].ev = "enter"
          /\ trace[i].kind = "slice" \/ (trace[i].kind = "string" /\ ~trace[i].nullterm)
          /\ ~trace[i].sized)
           => (decErr = MissingLengthSource /\ Len(src) = trace[i].inLen)

\* C6, as claimed: with a length field before or after the slice or string it
\* names, Encode leaves the true length in the length field and Decode of the
\* encoded bytes succeeds and sizes the collection from the length field.
C6_AnyPlacement ==
  (pc = "decoded" /\ cut = 0 /\ encErr = "")
    => \A i \in DOMAIN trace :
         (trace[i].ev = "enter" /\ trace[i].kind \in {"slice", "string"})
           => \A q \in ProducersOf(trace[i].path) :
                /\ ToNat(GetAt(val, q)) = Len(GetAt(val, trace[i].path))
                /\ decErr = ""
                /\ Len(GetAt(dec, trace[i].path)) = ToNat(GetAt(dec, q))

\* C6, amended: Encode writes a length field where it is declared, before or
\* after the collection it names, but Decode resolves the length of a slice or string only from a
\* length field declared before it. A collection whose length field comes before
\* is sized from the value Decode read into that field; one whose length field
\* comes only after it has no length producer and Decode fails at it, a slice
\* with MissingLengthSource and nothing read from the source from then on.
C6_LengthFieldBefore ==
  /\ pc = "encoded"
       => \A i \in DOMAIN trace :
            (trace[i].ev = "exit" /\ trace[i].kind \in FixedInts
               /\ TargetsOf(trace[i].path) # {})
              => (trace[i].err = "" /\ Len(trace[i].data) = Width(trace[i].kind))
  /\ pc = "decoded"
    => \A i \in DOMAIN trace :
         (/\ trace[i].ev = "enter"
          /\ trace[i].kind = "slice" \/ (trace[i].kind = "string" /\ ~trace[i].nullterm)
          /\ ProducersOf(trace[i].path) # {})
           => /\ trace[i].sized
                   <=> \E q \in ProducersOf(trace[i].path) : LexLess(q, trace[i].path)
              /\ ~trace[i].sized => decErr # ""
              /\ (~trace[i].sized /\ trace[i].kind = "slice")
                   => (decErr = MissingLengthSource /\ Len(src) = trace[i].inLen)
              /\ (trace[i].sized /\ decErr = "")
                   => \E q \in ProducersOf(trace[i].path) :
                        Len(GetAt(dec, trace[i].path)) = ToNat(GetAt(dec, q))

\* C6 witness: a non-empty slice whose length field is declared after it was
\* encoded, and Decode of all the encoded bytes failed with MissingLengthSource.
C6_Witness ==
  /\ pc = "decoded" /\ cut = 0 /\ encErr = ""
  /\ decErr = MissingLengthSource
  /\ \E i \in DOMAIN trace :
       /\ trace[i].ev = "enter" /\ trace[i].kind = "slice"
       /\ Len(GetAt(orig, trace[i].path)) > 0
       /\ \E q \in ProducersOf(trace[i].path) :
            /\ LexLess(trace[i].path, q)
            /\ ToNat(GetAt(val, q)) = Len(GetAt(orig, trace[i].path))

\* C7: write-failure propagation. Encode does not return success after a Write
\* on the sink failed, and makes no Write call after the failed one.
C7_WriteFailure ==
  (pc = "encoded" /\ werr) => (encErr # "" /\ wcalls = wfail)

\* C8: read-failure propagation. Decode does not return success when a Read
\* supplied fewer bytes than the leaf asked for.
C8_ReadFailure ==
  (pc = "decoded" /\ short) => decErr # ""

\* C9: supported kinds. In each of Sizeof, Encode and Decode a node is refused
\* as an unsupported kind if and only if its kind is outside the listed kinds.
C9_SupportedKinds ==
  \A i \in DOMAIN trace :
    trace[i].ev = "exit"
      => ((trace[i].origin /\ trace[i].err = Unsupported(trace[i].kind))
            <=> trace[i].kind \notin ClaimKinds)

\* C10: first-failure abort. The nodes are visited in declaration order, depth
\* first; once the visit of a node has returned an error no further node is
\* visited, every enclosing visit returns that same error, the call returns it,
\* and Encode's sink holds exactly the bytes it held when the error was raised.
C10_FirstFailureAbort ==
  /\ \A i, j \in DOMAIN trace :
       (i < j /\ trace[i].ev = "enter" /\ trace[j].ev = "enter")
         => LexLess(trace[i].path, trace[j].path)
  /\ \A i \in DOMAIN trace :
       (trace[i].ev = "exit" /\ trace[i].err # "" /\ ~IsPanic(trace[i].err))
         => /\ LastErr = trace[i].err
            /\ pc = "encoded" => Len(sink) = trace[i].outLen
            /\ \A j \in DOMAIN trace :
                 j > i => /\ trace[j].ev = "exit"
                          /\ trace[j].err = trace[i].err
                          /\ trace[j].outLen = trace[i].outLen
                          /\ trace[j].inLen = trace[i].inLen

\* C10 witness: Encode wrote a leaf, then failed on a leaf inside an array element
\* with a further field left to visit.
C10_Witness ==
  /\ pc = "encoded" /\ encErr # "" /\ ~IsPanic(encErr)
  /\ sink # <<>>
  /\ \E i \in DOMAIN trace :
       /\ trace[i].ev = "exit" /\ trace[i].origin
       /\ Len(trace[i].path) > 2
       /\ Head(trace[i].path) < Len(Elem(typ).sub)

====
